---- MODULE Spec2Model ----
(***************************************************************************)
(* The termie GUI (src/src/gui/mod.rs).  Replay session: load_replay,       *)
(* ReplayTermieGui::step_replay and the phases of ReplayTermieGui::update.  *)
(* Live session: TermieGui::new and the phases of TermieGui::update.        *)
(* The terminal emulator, the replay cursor (ReplayControl) and the replay *)
(* IO source live in crate::terminal_emulator, outside gui/mod.rs; they    *)
(* are modelled from the design specification (sections 3 and 4).          *)
(***************************************************************************)
EXTENDS Integers, Sequences, FiniteSets, TLC

VARIABLES
    recording,          \* the Recording stored at replay_path
    overflow_checks,    \* build profile: TRUE panics on usize overflow, FALSE wraps
    terminal_emulator,  \* ReplayTermieGui.terminal_emulator
    replay_control,     \* ReplayTermieGui.replay_control
    io_queue,           \* chunks pushed into the ReplayIo channel of replay_control, unread
    slider_pos,         \* ReplayTermieGui.slider_pos
    pc,                 \* position inside ReplayTermieGui::update
    frame_ops,          \* history: load_replay / step_replay calls of the latest frame
    last_frame,         \* history: the user's input and the reload outcome one frame back
    termie_gui,         \* the TermieGui of a live session, NoTermieGui in a replay session
    live_history        \* history of a live session: handles alive, latest calls

vars == <<recording, overflow_checks, terminal_emulator, replay_control,
          io_queue, slider_pos, pc, frame_ops, last_frame, termie_gui, live_history>>

----------------------------------------------------------------------------
(* Bounds of the model *)

\* longest event log of a recording
MaxEvents == 3

\* width in bits of the modelled usize
UsizeBits == 3

\* implementation ceiling of set_win_size (spec 4.1)
MaxDim == 3

UsizeMod == 2 ^ UsizeBits

UsizeMax == UsizeMod - 1

Min(a, b) == IF a < b THEN a ELSE b

----------------------------------------------------------------------------
(* Data model (spec section 3) *)

Blank == " "

BlankRow(w) == [i \in 1..w |-> Blank]

Data(bytes) == [type |-> "Data", bytes |-> bytes, width |-> 0, height |-> 0]

Resize(w, h) == [type |-> "Resize", bytes |-> <<>>, width |-> w, height |-> h]

\* blank 2x2 terminal, cursor at the origin
InitialSnapshot ==
    [width |-> 2, height |-> 2, cx |-> 0, cy |-> 0,
     grid |-> <<BlankRow(2), BlankRow(2)>>]

EventAlphabet ==
    { Data(<<"a", "b", "c">>), Data(<<"d">>), Resize(3, 2), Resize(0, 2),
      Resize(MaxDim + 1, 2) }

RECURSIVE SeqsUpTo(_, _)
SeqsUpTo(S, n) ==
    IF n = 0 THEN {<<>>}
    ELSE LET shorter == SeqsUpTo(S, n - 1)
         IN shorter \cup {Append(s, x) : s \in {t \in shorter : Len(t) = n - 1}, x \in S}

Recordings ==
    {[initial_snapshot |-> InitialSnapshot, events |-> ev] :
        ev \in SeqsUpTo(EventAlphabet, MaxEvents)}

----------------------------------------------------------------------------
(* Terminal State Machine (spec 4.1) *)

\* the state a renderer can observe: grid, cursor, dimensions
Observable(e) ==
    [width |-> e.width, height |-> e.height, cx |-> e.cx, cy |-> e.cy, grid |-> e.grid]

\* construct_from_snapshot: validates the declared dimensions, binds the IO source.
\* applied / parsed are history fields: the event indices whose effect this
\* instance has taken, in order, and the bytes its parser has consumed.
from_snapshot(snapshot, io_handle) ==
    IF Len(snapshot.grid) # snapshot.height
       \/ \E r \in 1..Len(snapshot.grid) : Len(snapshot.grid[r]) # snapshot.width
    THEN [ok |-> FALSE, err |-> "LoadSnapshotError"]
    ELSE [ok |-> TRUE,
          emu |-> [width |-> snapshot.width, height |-> snapshot.height,
                   cx |-> snapshot.cx, cy |-> snapshot.cy, grid |-> snapshot.grid,
                   io |-> io_handle, applied |-> <<>>, parsed |-> <<>>]]

\* set_window_size: rejects zero or excessive dimensions, otherwise truncates or
\* pads the grid and clamps the cursor into bounds
set_win_size(e, w, h) ==
    IF w = 0 \/ h = 0 \/ w > MaxDim \/ h > MaxDim
    THEN [ok |-> FALSE, emu |-> e]
    ELSE [ok |-> TRUE,
          emu |-> [e EXCEPT
                     !.width = w,
                     !.height = h,
                     !.cx = Min(e.cx, w - 1),
                     !.cy = Min(e.cy, h - 1),
                     !.grid = [r \in 1..h |->
                                 [c \in 1..w |->
                                     IF r <= e.height /\ c <= e.width
                                     THEN e.grid[r][c] ELSE Blank]]]]

\* one printable byte through the parser: written at the cursor, which then
\* advances, wrapping at the right edge and scrolling at the bottom
put_char(e, ch) ==
    LET g == [e.grid EXCEPT ![e.cy + 1][e.cx + 1] = ch]
    IN  IF e.cx + 1 < e.width
        THEN [e EXCEPT !.grid = g, !.cx = e.cx + 1]
        ELSE IF e.cy + 1 < e.height
        THEN [e EXCEPT !.grid = g, !.cx = 0, !.cy = e.cy + 1]
        ELSE [e EXCEPT !.grid = Tail(g) \o <<BlankRow(e.width)>>, !.cx = 0]

RECURSIVE parse_bytes(_, _)
parse_bytes(e, bytes) ==
    IF bytes = <<>> THEN e
    ELSE parse_bytes([put_char(e, Head(bytes)) EXCEPT !.parsed = Append(@, Head(bytes))],
                     Tail(bytes))

RECURSIVE parse_chunks(_, _)
parse_chunks(e, chunks) ==
    IF chunks = <<>> THEN e
    ELSE parse_chunks([parse_bytes(e, Head(chunks).bytes)
                          EXCEPT !.applied = Append(@, Head(chunks).idx)],
                      Tail(chunks))

----------------------------------------------------------------------------
(* Recording, Replay Cursor and replay IO source (spec 4.2, 4.3, 4.4) *)

\* what Recording::load finds at replay_path
DiskStates == {"intact", "unreadable", "bad_snapshot"}

\* Recording::load: an error, or the whole recording, never a part of it
Recording_load(disk) ==
    IF disk = "unreadable" THEN [ok |-> FALSE, err |-> "LoadRecordingError"]
    ELSE IF disk = "bad_snapshot"
    THEN [ok |-> TRUE,
          recording |-> [recording EXCEPT !.initial_snapshot.height = @ + 1]]
    ELSE [ok |-> TRUE, recording |-> recording]

\* ReplayControl::new: a cursor at position 0 with its own IO channel
ReplayControl_new(rec, handle) ==
    [events |-> rec.events, initial_state |-> rec.initial_snapshot,
     pos |-> 0, io |-> handle]

ReplayControl_len(rc) == Len(rc.events)

ReplayControl_current_pos(rc) == rc.pos

\* faulty variant of ReplayControl_next: at the end of the log the cursor rewinds and
\* delivers the first event again
ReplayControl_next_rewinding(rc, queue) ==
    LET at == IF rc.pos = Len(rc.events) THEN 0 ELSE rc.pos
    IN  IF Len(rc.events) = 0
        THEN [action |-> [type |-> "None"], rc |-> rc, queue |-> queue]
        ELSE LET ev == rc.events[at + 1]
                 rc2 == [rc EXCEPT !.pos = at + 1]
             IN  IF ev.type = "Data"
                 THEN [action |-> [type |-> "None"], rc |-> rc2,
                       queue |-> Append(queue, [idx |-> at, bytes |-> ev.bytes])]
                 ELSE [action |-> [type |-> "Resize", width |-> ev.width,
                                   height |-> ev.height],
                       rc |-> rc2, queue |-> queue]

\* ReplayControl::next (advance): at the end returns None and changes nothing;
\* otherwise pushes a Data event's bytes into the IO channel, or turns a Resize
\* event into a ControlAction, and increments the position.  A queued chunk
\* carries the index of its event as a history tag.
ReplayControl_next(rc, queue) ==
    IF rc.pos = Len(rc.events)
    THEN [action |-> [type |-> "None"], rc |-> rc, queue |-> queue]
    ELSE LET ev == rc.events[rc.pos + 1]
             rc2 == [rc EXCEPT !.pos = @ + 1]
         IN  IF ev.type = "Data"
             THEN [action |-> [type |-> "None"], rc |-> rc2,
                   queue |-> Append(queue, [idx |-> rc.pos, bytes |-> ev.bytes])]
             ELSE [action |-> [type |-> "Resize", width |-> ev.width, height |-> ev.height],
                   rc |-> rc2, queue |-> queue]

\* poll_io_and_update: an emulator pulls every chunk available in the channel it
\* is bound to, in order, and feeds it to the parser; a read chunk is consumed
poll_io_and_update(g) ==
    IF g.terminal_emulator.io = g.replay_control.io
    THEN [g EXCEPT !.terminal_emulator = parse_chunks(@, g.io_queue),
                   !.io_queue = <<>>]
    ELSE g

----------------------------------------------------------------------------
(* gui/mod.rs *)

\* the fields of ReplayTermieGui the operations below read and write
Gui == [terminal_emulator |-> terminal_emulator, replay_control |-> replay_control,
        io_queue |-> io_queue, ops |-> frame_ops]

\* an IO channel identity no live object holds
FreshHandle(g) ==
    CHOOSE h \in 0..2 : h \notin {g.terminal_emulator.io, g.replay_control.io}

load_replay(disk, handle) ==
    LET loaded == Recording_load(disk)
    IN  IF ~loaded.ok THEN [ok |-> FALSE, err |-> "Recording"]
        ELSE LET rc == ReplayControl_new(loaded.recording, handle)
                 made == from_snapshot(rc.initial_state, rc.io)
             IN  IF ~made.ok THEN [ok |-> FALSE, err |-> "CreateTerminalEmulator"]
                 ELSE [ok |-> TRUE, terminal_emulator |-> made.emu, replay_control |-> rc]

\* faulty variant of step_replay: a rejected size is clamped into range and applied
step_replay_clamping(g) ==
    LET r == ReplayControl_next(g.replay_control, g.io_queue)
        at == [op |-> "step", pos |-> g.replay_control.pos]
        g1 == [g EXCEPT !.replay_control = r.rc, !.io_queue = r.queue,
                        !.ops = Append(@, at)]
    IN  IF r.action.type = "Resize"
        THEN LET w == IF r.action.width = 0 THEN 1 ELSE Min(r.action.width, MaxDim)
                 h == IF r.action.height = 0 THEN 1 ELSE Min(r.action.height, MaxDim)
             IN  [g1 EXCEPT !.terminal_emulator =
                     [set_win_size(g.terminal_emulator, w, h).emu
                         EXCEPT !.applied = Append(@, g.replay_control.pos)]]
        ELSE g1

\* faulty variant of step_replay: the cursor is advanced twice, the first
\* ControlAction is dropped
step_replay_double(g) ==
    LET first == ReplayControl_next(g.replay_control, g.io_queue)
        r == ReplayControl_next(first.rc, first.queue)
        at == [op |-> "step", pos |-> g.replay_control.pos]
        g1 == [g EXCEPT !.replay_control = r.rc, !.io_queue = r.queue,
                        !.ops = Append(@, at)]
    IN  IF r.action.type = "Resize"
        THEN LET res == set_win_size(g.terminal_emulator, r.action.width, r.action.height)
             IN  [g1 EXCEPT !.terminal_emulator =
                     [(IF res.ok THEN res.emu ELSE g.terminal_emulator)
                         EXCEPT !.applied = Append(@, r.rc.pos - 1)]]
        ELSE g1

step_replay(g) ==
    LET r == ReplayControl_next(g.replay_control, g.io_queue)
        at == [op |-> "step", pos |-> g.replay_control.pos]
        g1 == [g EXCEPT !.replay_control = r.rc, !.io_queue = r.queue,
                        !.ops = Append(@, at)]
    IN  IF r.action.type = "Resize"
        THEN LET res == set_win_size(g.terminal_emulator, r.action.width, r.action.height)
             IN  [g1 EXCEPT !.terminal_emulator =
                     [(IF res.ok THEN res.emu ELSE g.terminal_emulator)
                         EXCEPT !.applied = Append(@, g.replay_control.pos)]]
        ELSE g1

RECURSIVE step_replay_times(_, _)
step_replay_times(g, n) ==
    IF n = 0 THEN g ELSE step_replay_times(step_replay(g), n - 1)

\* faulty variant of update_reload: only the cursor is replaced, the emulator is kept
update_reload_keeping_emulator(g, disk) ==
    IF ReplayControl_current_pos(g.replay_control) > slider_pos
    THEN LET response == load_replay(disk, FreshHandle(g))
         IN  IF response.ok
             THEN [g EXCEPT !.replay_control = response.replay_control,
                            !.io_queue = <<>>,
                            !.ops = Append(@, [op |-> "load_ok", pos |-> 0])]
             ELSE [g EXCEPT !.ops = Append(@, [op |-> "load_err", pos |-> 0])]
    ELSE g

\* faulty variant of update_reload: only the emulator is replaced, the cursor is kept
update_reload_keeping_cursor(g, disk) ==
    IF ReplayControl_current_pos(g.replay_control) > slider_pos
    THEN LET response == load_replay(disk, FreshHandle(g))
         IN  IF response.ok
             THEN [g EXCEPT !.terminal_emulator = response.terminal_emulator,
                            !.ops = Append(@, [op |-> "load_ok", pos |-> 0])]
             ELSE [g EXCEPT !.ops = Append(@, [op |-> "load_err", pos |-> 0])]
    ELSE g

\* faulty variant of update_reload: reloads also when the cursor is already at the slider
update_reload_eager(g, disk) ==
    IF ReplayControl_current_pos(g.replay_control) >= slider_pos
    THEN LET response == load_replay(disk, FreshHandle(g))
         IN  IF response.ok
             THEN [g EXCEPT !.terminal_emulator = response.terminal_emulator,
                            !.replay_control = response.replay_control,
                            !.io_queue = <<>>,
                            !.ops = Append(@, [op |-> "load_ok", pos |-> 0])]
             ELSE [g EXCEPT !.ops = Append(@, [op |-> "load_err", pos |-> 0])]
    ELSE g

\* faulty variant of update_reload: the cursor built before from_snapshot failed is
\* installed although no emulator came with it
update_reload_partial(g, disk) ==
    IF ReplayControl_current_pos(g.replay_control) > slider_pos
    THEN LET response == load_replay(disk, FreshHandle(g))
             loaded == Recording_load(disk)
         IN  IF response.ok
             THEN [g EXCEPT !.terminal_emulator = response.terminal_emulator,
                            !.replay_control = response.replay_control,
                            !.io_queue = <<>>,
                            !.ops = Append(@, [op |-> "load_ok", pos |-> 0])]
             ELSE IF loaded.ok
             THEN [g EXCEPT !.replay_control =
                                ReplayControl_new(loaded.recording, FreshHandle(g)),
                            !.io_queue = <<>>,
                            !.ops = Append(@, [op |-> "load_err", pos |-> 0])]
             ELSE [g EXCEPT !.ops = Append(@, [op |-> "load_err", pos |-> 0])]
    ELSE g

\* faulty variant of update_reload: after a failed reload the next frame does not
\* try again
update_reload_giving_up(g, disk) ==
    IF /\ ReplayControl_current_pos(g.replay_control) > slider_pos
       /\ ~\E i \in 1..Len(frame_ops) : frame_ops[i].op = "load_err"
    THEN LET response == load_replay(disk, FreshHandle(g))
         IN  IF response.ok
             THEN [g EXCEPT !.terminal_emulator = response.terminal_emulator,
                            !.replay_control = response.replay_control,
                            !.io_queue = <<>>,
                            !.ops = Append(@, [op |-> "load_ok", pos |-> 0])]
             ELSE [g EXCEPT !.ops = Append(@, [op |-> "load_err", pos |-> 0])]
    ELSE g

\* update, lines 94-105: a backward seek reloads the recording
update_reload(g, disk) ==
    IF ReplayControl_current_pos(g.replay_control) > slider_pos
    THEN LET response == load_replay(disk, FreshHandle(g))
         IN  IF response.ok
             THEN [g EXCEPT !.terminal_emulator = response.terminal_emulator,
                            !.replay_control = response.replay_control,
                            !.io_queue = <<>>,
                            !.ops = Append(@, [op |-> "load_ok", pos |-> 0])]
             ELSE [g EXCEPT !.ops = Append(@, [op |-> "load_err", pos |-> 0])]
    ELSE g

\* faulty variant of update_forward: the loop stops one step short
update_forward_short(g) ==
    LET current_pos == ReplayControl_current_pos(g.replay_control)
    IN  IF current_pos < slider_pos
        THEN step_replay_times(g, slider_pos - current_pos - 1)
        ELSE g

\* update, lines 107-112: step forward up to the slider
update_forward(g) ==
    LET current_pos == ReplayControl_current_pos(g.replay_control)
    IN  IF current_pos < slider_pos
        THEN step_replay_times(g, slider_pos - current_pos)
        ELSE g

SetGui(g) ==
    /\ terminal_emulator' = g.terminal_emulator
    /\ replay_control' = g.replay_control
    /\ io_queue' = g.io_queue
    /\ frame_ops' = g.ops

\* update, lines 94-112: the seek phase
UpdateSeek(disk) ==
    /\ pc = "seek"
    /\ SetGui(update_forward(update_reload([Gui EXCEPT !.ops = <<>>], disk)))
    /\ last_frame' = [last_frame EXCEPT !.reload_failed =
                          \E i \in 1..Len(frame_ops) : frame_ops[i].op = "load_err"]
    /\ pc' = "next"
    /\ UNCHANGED <<recording, overflow_checks, slider_pos, termie_gui, live_history>>

\* update, lines 123-126: the next button
UpdateNext(clicked) ==
    /\ pc = "next"
    /\ IF ~clicked
       THEN /\ pc' = "slider"
            /\ UNCHANGED <<terminal_emulator, replay_control, io_queue, frame_ops,
                           slider_pos>>
       ELSE /\ SetGui(step_replay(Gui))
            /\ IF slider_pos + 1 > UsizeMax
               THEN IF overflow_checks
                    THEN pc' = "panicked" /\ UNCHANGED slider_pos
                    ELSE pc' = "slider" /\ slider_pos' = (slider_pos + 1) % UsizeMod
               ELSE pc' = "slider" /\ slider_pos' = slider_pos + 1
    /\ last_frame' = [clicked |-> clicked, dragged |-> FALSE, reload_failed |-> FALSE]
    /\ UNCHANGED <<recording, overflow_checks, termie_gui, live_history>>

\* update, lines 139-143: the seek slider over 0..=len - 1, always clamping
UpdateSlider(value) ==
    /\ pc = "slider"
    /\ LET len == ReplayControl_len(replay_control)
       IN  IF len = 0 /\ overflow_checks
           THEN pc' = "panicked" /\ UNCHANGED <<slider_pos, last_frame>>
           ELSE /\ value <= (len - 1) % UsizeMod
                /\ slider_pos' = value
                /\ last_frame' = [last_frame EXCEPT !.dragged =
                                      value # Min(slider_pos, (len - 1) % UsizeMod)]
                /\ pc' = "show"
    /\ UNCHANGED <<recording, overflow_checks, terminal_emulator, replay_control,
                   io_queue, frame_ops, termie_gui, live_history>>

\* the sizes, in character cells, the host can leave to the terminal widget
WidgetSizes == {<<w, 2>> : w \in {0, 2, 3, MaxDim + 1}}

\* faulty variant of update_show: the replay frame sets the window size from
\* the widget's available size, as the live frame does
update_show_resizing(g, avail) ==
    poll_io_and_update(
        [g EXCEPT !.terminal_emulator = set_win_size(@, avail[1], avail[2]).emu])

\* update, lines 146-148: the central panel shows the terminal widget, which
\* polls the emulator; the size available to the panel is not read
update_show(g, avail) == poll_io_and_update(g)

\* update, lines 146-148: the terminal widget polls the emulator and draws it
UpdateShow ==
    /\ pc = "show"
    /\ \E avail \in WidgetSizes :
           LET g == update_show(Gui, avail)
           IN  /\ terminal_emulator' = g.terminal_emulator
               /\ io_queue' = g.io_queue
    /\ pc' = "seek"
    /\ UNCHANGED <<recording, overflow_checks, replay_control, slider_pos, frame_ops,
                   last_frame, termie_gui, live_history>>

----------------------------------------------------------------------------
(* Live session: TermieGui (gui/mod.rs, lines 156-287) *)

\* value of termie_gui and live_history while a replay session runs, and of
\* the replay variables while a live session runs
NoTermieGui == "none"

NoLiveHistory == "none"

NoReplay == "none"

\* identities of the RecordingHandle values start_recording can return
RecordingHandles == {"h1", "h2"}

\* the chunks one poll can find on the pseudo-terminal
PtyReads == {<<>>, <<"a">>}

\* the emulator handed to run: a blank terminal bound to the pseudo-terminal
TerminalEmulator_new == from_snapshot(InitialSnapshot, "pty").emu

\* TerminalEmulator::start_recording: fails, or returns a handle that is not
\* alive yet
start_recording(outcome, alive) ==
    IF outcome = "err"
    THEN [ok |-> FALSE, handle |-> "None"]
    ELSE [ok |-> TRUE, handle |-> CHOOSE h \in RecordingHandles : h \notin alive]

\* poll_io_and_update on the live path: the bytes the pseudo-terminal has
\* ready go through the parser (the history of parsed bytes is not kept)
pty_poll_io_and_update(e, bytes) == [parse_bytes(e, bytes) EXCEPT !.parsed = <<>>]

\* faulty variant of update_set_win_size: the frame resets the emulator
\* before it sets the window size
update_set_win_size_resetting(t, size) ==
    [t EXCEPT !.terminal_emulator =
         set_win_size(TerminalEmulator_new, size[1], size[2]).emu]

\* TermieGui::update, lines 254-261: the size available to the widget is set
\* as the window size; an error is logged
update_set_win_size(t, size) ==
    [t EXCEPT !.terminal_emulator = set_win_size(@, size[1], size[2]).emu]

\* TermieGui::update, line 263: the terminal widget polls the emulator
update_show_live(t, bytes) ==
    [t EXCEPT !.terminal_emulator = pty_poll_io_and_update(@, bytes)]

\* faulty variant of update_context_menu: the recording button starts a
\* recording whether or not a handle is held
update_context_menu_restarting(t, hist, click, outcome) ==
    IF click = "checkbox"
    THEN [gui |-> [t EXCEPT !.show_debug_panel = ~@],
          hist |-> [hist EXCEPT !.menu_op = "none"]]
    ELSE IF click = "recording"
    THEN LET v == start_recording(outcome, hist.live_handles)
         IN  IF v.ok
             THEN [gui |-> [t EXCEPT !.recording_handle = v.handle],
                   hist |-> [hist EXCEPT
                               !.live_handles = (@ \ {t.recording_handle}) \cup {v.handle},
                               !.menu_op = "start_ok"]]
             ELSE [gui |-> t, hist |-> [hist EXCEPT !.menu_op = "start_err"]]
    ELSE [gui |-> t, hist |-> [hist EXCEPT !.menu_op = "none"]]

\* TermieGui::update, lines 266-286: the context menu.  click is the widget of
\* the menu the user clicked in this frame, if any; the recording button is
\* "Stop recording" while a handle is held and "Start recording" otherwise.
\* Assigning recording_handle drops the handle it held.
update_context_menu(t, hist, click, outcome) ==
    IF click = "checkbox"
    THEN [gui |-> [t EXCEPT !.show_debug_panel = ~@],
          hist |-> [hist EXCEPT !.menu_op = "none"]]
    ELSE IF click = "recording"
    THEN IF t.recording_handle # "None"
         THEN [gui |-> [t EXCEPT !.recording_handle = "None"],
               hist |-> [hist EXCEPT
                           !.live_handles = @ \ {t.recording_handle},
                           !.menu_op = "stop"]]
         ELSE LET v == start_recording(outcome, hist.live_handles)
              IN  IF v.ok
                  THEN [gui |-> [t EXCEPT !.recording_handle = v.handle],
                        hist |-> [hist EXCEPT
                                    !.live_handles = (@ \ {t.recording_handle})
                                                     \cup {v.handle},
                                    !.menu_op = "start_ok"]]
                  ELSE [gui |-> t, hist |-> [hist EXCEPT !.menu_op = "start_err"]]
    ELSE [gui |-> t, hist |-> [hist EXCEPT !.menu_op = "none"]]

ReplayUnchanged ==
    UNCHANGED <<recording, overflow_checks, terminal_emulator, replay_control,
                io_queue, slider_pos, frame_ops, last_frame>>

\* TermieGui::update, lines 253-261: the central panel sets the window size
LiveSetWinSize(size) ==
    /\ pc = "live_resize"
    /\ termie_gui' = update_set_win_size(termie_gui, size)
    /\ live_history' = [live_history EXCEPT
                          !.win_size = size,
                          !.same_size = (size = live_history.win_size)]
    /\ pc' = "live_show"
    /\ ReplayUnchanged

\* TermieGui::update, line 263: the terminal widget is shown
LiveShow(bytes) ==
    /\ pc = "live_show"
    /\ termie_gui' = update_show_live(termie_gui, bytes)
    /\ pc' = "live_menu"
    /\ UNCHANGED live_history
    /\ ReplayUnchanged

\* TermieGui::update, lines 266-286: the context menu of the central panel
LiveContextMenu(click, outcome) ==
    /\ pc = "live_menu"
    /\ LET r == update_context_menu(termie_gui, live_history, click, outcome)
       IN  /\ termie_gui' = r.gui
           /\ live_history' = r.hist
    /\ pc' = "live_resize"
    /\ ReplayUnchanged

\* run and TermieGui::new, lines 163-174 and 319-332
LiveInit ==
    /\ termie_gui = [terminal_emulator |-> TerminalEmulator_new,
                     recording_handle |-> "None",
                     show_debug_panel |-> TRUE]
    /\ live_history = [live_handles |-> {}, menu_op |-> "none",
                       win_size |-> <<>>, same_size |-> FALSE]
    /\ pc = "live_resize"
    /\ recording = NoReplay
    /\ overflow_checks = FALSE
    /\ terminal_emulator = NoReplay
    /\ replay_control = NoReplay
    /\ io_queue = <<>>
    /\ slider_pos = 0
    /\ frame_ops = <<>>
    /\ last_frame = [clicked |-> FALSE, dragged |-> FALSE, reload_failed |-> FALSE]

LiveNext ==
    \/ \E size \in WidgetSizes : LiveSetWinSize(size)
    \/ \E bytes \in PtyReads : LiveShow(bytes)
    \/ \E click \in {"none", "checkbox", "recording"}, outcome \in {"ok", "err"} :
           LiveContextMenu(click, outcome)

LiveSpec == LiveInit /\ [][LiveNext]_vars

----------------------------------------------------------------------------
\* run_replay, lines 298-312, and ReplayTermieGui::new
Init ==
    /\ recording \in Recordings
    /\ overflow_checks \in BOOLEAN
    /\ LET response == load_replay("intact", 0)
       IN  /\ response.ok
           /\ terminal_emulator = response.terminal_emulator
           /\ replay_control = response.replay_control
    /\ io_queue = <<>>
    /\ slider_pos = 0
    /\ pc = "seek"
    /\ frame_ops = <<>>
    /\ last_frame = [clicked |-> FALSE, dragged |-> FALSE, reload_failed |-> FALSE]
    /\ termie_gui = NoTermieGui
    /\ live_history = NoLiveHistory

Next ==
    \/ \E disk \in DiskStates : UpdateSeek(disk)
    \/ \E clicked \in BOOLEAN : UpdateNext(clicked)
    \/ \E value \in 0..UsizeMax : UpdateSlider(value)
    \/ UpdateShow

Spec == Init /\ [][Next]_vars

----------------------------------------------------------------------------
(* Reference semantics of a recording: the first T events applied one at a  *)
(* time, each taking its whole effect before the next one starts.           *)

apply_event(e, ev) ==
    IF ev.type = "Data" THEN parse_bytes(e, ev.bytes)
    ELSE set_win_size(e, ev.width, ev.height).emu

RECURSIVE ForwardReplay(_, _)
ForwardReplay(rec, T) ==
    IF T = 0 THEN from_snapshot(rec.initial_snapshot, 0).emu
    ELSE apply_event(ForwardReplay(rec, T - 1), rec.events[T])

IsStrictlyIncreasing(s) == \A i, j \in 1..Len(s) : i < j => s[i] < s[j]

\* the first T events with the Data events left out: only the resizes applied
RECURSIVE ResizeOnlyReplay(_, _)
ResizeOnlyReplay(rec, T) ==
    IF T = 0 THEN from_snapshot(rec.initial_snapshot, 0).emu
    ELSE IF rec.events[T].type = "Resize"
    THEN apply_event(ResizeOnlyReplay(rec, T - 1), rec.events[T])
    ELSE ResizeOnlyReplay(rec, T - 1)

\* the Data events among the first T events, as chunks in log order
RECURSIVE DataChunks(_, _)
DataChunks(rec, T) ==
    IF T = 0 THEN <<>>
    ELSE IF rec.events[T].type = "Data"
    THEN Append(DataChunks(rec, T - 1), [idx |-> T - 1, bytes |-> rec.events[T].bytes])
    ELSE DataChunks(rec, T - 1)

\* the indices of the Resize events among the first T events
RECURSIVE ResizeIndices(_, _)
ResizeIndices(rec, T) ==
    IF T = 0 THEN <<>>
    ELSE IF rec.events[T].type = "Resize"
    THEN Append(ResizeIndices(rec, T - 1), T - 1)
    ELSE ResizeIndices(rec, T - 1)

RECURSIVE FlattenBytes(_)
FlattenBytes(chunks) ==
    IF chunks = <<>> THEN <<>> ELSE Head(chunks).bytes \o FlattenBytes(Tail(chunks))

\* the dimensions after the first T events: those of the last Resize with
\* dimensions in 1..MaxDim, or the snapshot's
RECURSIVE LastValidDims(_, _)
LastValidDims(rec, T) ==
    IF T = 0 THEN <<rec.initial_snapshot.width, rec.initial_snapshot.height>>
    ELSE LET ev == rec.events[T]
         IN  IF ev.type = "Resize" /\ ev.width \in 1..MaxDim /\ ev.height \in 1..MaxDim
             THEN <<ev.width, ev.height>>
             ELSE LastValidDims(rec, T - 1)

IsRejectedResize(ev) ==
    ev.type = "Resize" /\ ~(ev.width \in 1..MaxDim /\ ev.height \in 1..MaxDim)

EventsLen == Len(recording.events)

HasOp(ops, name) == \E i \in 1..Len(ops) : ops[i].op = name

\* the load_replay / step_replay calls of the step being taken
NewOps ==
    IF pc = "seek" THEN frame_ops'
    ELSE SubSeq(frame_ops', Len(frame_ops) + 1, Len(frame_ops'))

\* the seek phase of the current frame has just ended
SeekPhaseDone == pc = "next"

\* ... and it was a backward seek whose reload succeeded
BackwardSeekDone ==
    SeekPhaseDone /\ frame_ops # <<>> /\ frame_ops[1].op = "load_ok"

----------------------------------------------------------------------------
(* Claims *)

\* C1 (as stated): at every frame boundary, i.e. after the seek phase and the
\* emulator's poll, the observable state of the emulator (grid, cursor,
\* dimensions) is that of a forward replay of the first current_pos events
\* from initial_snapshot, one event at a time.
C1_SeekCorrectness ==
    pc = "seek" =>
        Observable(terminal_emulator)
            = Observable(ForwardReplay(recording, replay_control.pos))

\* C2 (as stated): the events take effect on the emulator in strict log order:
\* the indices of the events applied to the emulator so far (a Resize when
\* set_win_size is called, a Data event when its bytes are parsed) increase.
C2_StrictLogOrder ==
    IsStrictlyIncreasing(terminal_emulator.applied)

\* C3 (as stated, on the recordings that hold at least one event): at the end
\* of the seek phase of every frame, replay_control.current_pos() equals
\* slider_pos.
C3_PosEqualsSlider ==
    (SeekPhaseDone /\ EventsLen >= 1) => replay_control.pos = slider_pos

\* C3 (amended): at the end of the seek phase current_pos() equals slider_pos
\* capped at len, unless the reload of that frame failed; then the cursor is
\* still above slider_pos.
C3_PosAfterSeek ==
    SeekPhaseDone =>
        IF HasOp(frame_ops, "load_err")
        THEN replay_control.pos > slider_pos
        ELSE replay_control.pos = Min(slider_pos, EventsLen)

\* a backward seek to a position >= 1 has reloaded and stepped up to the slider
C3_Witness ==
    /\ BackwardSeekDone
    /\ slider_pos >= 1
    /\ replay_control.pos = slider_pos

\* C4: when the slider is below the cursor and the reload succeeds, the frame
\* performs one load_replay and then exactly slider_pos advances from position
\* 0, in that order; the emulator is the one rebuilt from initial_snapshot (no
\* byte parsed yet, only the resizes of the first slider_pos events applied)
\* and is bound to the fresh cursor, whose channel holds the Data chunks of
\* those events.
C4_FullReconstruction ==
    BackwardSeekDone =>
        /\ frame_ops = <<[op |-> "load_ok", pos |-> 0]>>
                         \o [i \in 1..slider_pos |-> [op |-> "step", pos |-> i - 1]]
        /\ replay_control.pos = slider_pos
        /\ terminal_emulator.io = replay_control.io
        /\ terminal_emulator.parsed = <<>>
        /\ terminal_emulator.applied = ResizeIndices(recording, slider_pos)
        /\ Observable(terminal_emulator)
             = Observable(ResizeOnlyReplay(recording, slider_pos))
        /\ io_queue = DataChunks(recording, slider_pos)

\* a successful backward seek followed by at least two advances
C4_Witness ==
    /\ BackwardSeekDone
    /\ slider_pos >= 2
    /\ Len(frame_ops) = slider_pos + 1

\* C5: a seek phase entered with the cursor at P <= slider_pos performs
\* exactly slider_pos - P step_replay calls and no load_replay call.
C5_ForwardOnly ==
    [][(pc = "seek" /\ replay_control.pos <= slider_pos) =>
         frame_ops' = [i \in 1..(slider_pos - replay_control.pos) |->
                          [op |-> "step",
                           pos |-> Min(replay_control.pos + i - 1, EventsLen)]]]_vars

\* a forward seek of at least two advances, none of them a reload
C5_Witness ==
    /\ SeekPhaseDone
    /\ Len(frame_ops) >= 2
    /\ \A i \in 1..Len(frame_ops) : frame_ops[i].op = "step"
    /\ replay_control.pos = slider_pos

\* C6: after a backward seek to T = slider_pos the emulator's dimensions are
\* those of a forward replay of the first T events, no event of index >= T has
\* taken effect on it or waits in its channel, and the grid its poll produces
\* is a function of initial_snapshot and the first T events alone.
C6_NoLaterEffects ==
    BackwardSeekDone =>
        /\ terminal_emulator.width = ForwardReplay(recording, slider_pos).width
        /\ terminal_emulator.height = ForwardReplay(recording, slider_pos).height
        /\ \A i \in 1..Len(terminal_emulator.applied) :
               terminal_emulator.applied[i] < slider_pos
        /\ \A i \in 1..Len(io_queue) : io_queue[i].idx < slider_pos
        /\ Observable(poll_io_and_update(Gui).terminal_emulator)
             = Observable(parse_chunks(ResizeOnlyReplay(recording, slider_pos),
                                       DataChunks(recording, slider_pos)))

\* a backward seek to T >= 1 over an accepted Resize at index T, which had been
\* applied before the seek: the emulator is back at the snapshot's width
C6_Witness ==
    /\ BackwardSeekDone
    /\ slider_pos >= 1
    /\ slider_pos < EventsLen
    /\ recording.events[slider_pos + 1] = Resize(3, 2)
    /\ terminal_emulator.width = recording.initial_snapshot.width

C8_TerminalState ==
    /\ [](replay_control.pos = EventsLen =>
            ReplayControl_next(replay_control, io_queue).action.type = "None")
    /\ [][(/\ pc \in {"seek", "next"}
           /\ replay_control.pos = EventsLen
           /\ NewOps # <<>>
           /\ \A i \in 1..Len(NewOps) : NewOps[i].op = "step")
          => /\ replay_control' = replay_control
             /\ io_queue' = io_queue
             /\ terminal_emulator' = terminal_emulator]_vars

\* step_replay has been called with the cursor at the end of a non-empty log
C8_Witness ==
    /\ EventsLen >= 1
    /\ \E i \in 1..Len(frame_ops) :
          frame_ops[i] = [op |-> "step", pos |-> EventsLen]
    /\ replay_control.pos = EventsLen

\* C9: load_replay yields no response when Recording::load or from_snapshot
\* fails, and a seek phase whose reload failed leaves terminal_emulator,
\* replay_control and the channel as they were and performs no advance.
C9_FailClosed ==
    /\ [](\A disk \in DiskStates \ {"intact"} : ~load_replay(disk, FreshHandle(Gui)).ok)
    /\ [][(pc = "seek" /\ HasOp(frame_ops', "load_err"))
          => /\ terminal_emulator' = terminal_emulator
             /\ replay_control' = replay_control
             /\ io_queue' = io_queue
             /\ frame_ops' = <<[op |-> "load_err", pos |-> 0]>>]_vars

\* the reload of a backward seek has failed
C9_Witness ==
    /\ SeekPhaseDone
    /\ HasOp(frame_ops, "load_err")
    /\ replay_control.pos > slider_pos

\* C10: a click on next over a Resize that set_win_size rejects leaves the
\* emulator's observable state as it was and moves the cursor by one; and the
\* dimensions are always those of the last accepted Resize before the cursor
\* (rejected ones are skipped, later ones still applied).
C10_ResizeErrorRetained ==
    /\ [](<<terminal_emulator.width, terminal_emulator.height>>
            = LastValidDims(recording, replay_control.pos))
    /\ [][(/\ pc = "next"
           /\ NewOps # <<>>
           /\ replay_control.pos < EventsLen
           /\ IsRejectedResize(recording.events[replay_control.pos + 1]))
          => /\ Observable(terminal_emulator') = Observable(terminal_emulator)
             /\ replay_control'.pos = replay_control.pos + 1
             /\ io_queue' = io_queue]_vars

\* a rejected Resize has been stepped over, and a later Resize was accepted
C10_Witness ==
    \E i, j \in 1..Len(terminal_emulator.applied) :
        /\ i < j
        /\ IsRejectedResize(recording.events[terminal_emulator.applied[i] + 1])
        /\ recording.events[terminal_emulator.applied[j] + 1] = Resize(3, 2)
        /\ terminal_emulator.width = 3

\* the cursor position after the calls ops, made from position p: a reload
\* puts a fresh cursor at 0, a failed reload changes nothing, and a step_replay
\* call, made at the position recorded with it, advances by one, or by nothing
\* at the end of the log
RECURSIVE AdvancesOneByOne(_, _, _)
AdvancesOneByOne(p, ops, final) ==
    IF ops = <<>> THEN final = p
    ELSE LET o == Head(ops)
         IN  IF o.op = "load_ok" THEN AdvancesOneByOne(0, Tail(ops), final)
             ELSE IF o.op = "load_err" THEN AdvancesOneByOne(p, Tail(ops), final)
             ELSE /\ o.pos = p
                  /\ AdvancesOneByOne(IF p < EventsLen THEN p + 1 ELSE p,
                                      Tail(ops), final)

\* C12: the cursor position is always within 0..len(events); it changes only
\* through the step_replay calls of a step, by one per call, or through the
\* replacement by a fresh cursor at 0, and it decreases only in a seek phase
\* entered with the slider below the cursor whose reload succeeded.
C12_CursorBounds ==
    /\ [](/\ replay_control.pos >= 0
          /\ replay_control.pos <= ReplayControl_len(replay_control))
    /\ [][/\ AdvancesOneByOne(replay_control.pos, NewOps, replay_control'.pos)
          /\ replay_control'.pos < replay_control.pos
               => /\ pc = "seek"
                  /\ replay_control.pos > slider_pos
                  /\ NewOps[1].op = "load_ok"
                  /\ replay_control'.pos = slider_pos]_vars

\* a backward seek to the start: the cursor at len >= 2 was replaced by a
\* fresh one at position 0
C12_Witness ==
    /\ pc = "next"
    /\ frame_ops = <<[op |-> "load_ok", pos |-> 0]>>
    /\ replay_control.pos = 0
    /\ EventsLen >= 2

\* C13 (as stated, with 0 allowed as the only position of an empty log): the
\* slider bound len - 1 is computed without underflow, so update never panics
\* on it, and at the start of every frame slider_pos is at most len - 1.
C13_SliderBound ==
    /\ pc # "panicked"
    /\ pc = "seek" => slider_pos <= (IF EventsLen = 0 THEN 0 ELSE EventsLen - 1)

\* C17: the emulator is bound to the IO channel of the current cursor.
C17_MatchedPair ==
    terminal_emulator.io = replay_control.io

\* a reload has replaced the pair created by run_replay, and the widget has
\* polled the new emulator since
C17_Witness ==
    /\ pc = "seek"
    /\ HasOp(frame_ops, "load_ok")
    /\ replay_control.io # 0
    /\ terminal_emulator.parsed # <<>>

\* C11: the window size of the replay emulator changes only in a step that
\* calls step_replay on a Resize event or that replaces the emulator by one
\* rebuilt from initial_snapshot; whatever size the host leaves to the widget,
\* showing the widget does not change it.
C11_SizeDrivenByLog ==
    [][(<<terminal_emulator'.width, terminal_emulator'.height>>
          # <<terminal_emulator.width, terminal_emulator.height>>)
       => \E i \in 1..Len(NewOps) :
             \/ NewOps[i].op = "load_ok"
             \/ /\ NewOps[i].op = "step"
                /\ NewOps[i].pos < EventsLen
                /\ recording.events[NewOps[i].pos + 1].type = "Resize"]_vars

\* a frame has stepped over an accepted Resize and has shown the widget: the
\* size is the one the log asked for
C11_Witness ==
    /\ pc = "seek"
    /\ \E i \in 1..Len(frame_ops) :
          /\ frame_ops[i].op = "step"
          /\ frame_ops[i].pos < EventsLen
          /\ recording.events[frame_ops[i].pos + 1] = Resize(3, 2)
    /\ <<terminal_emulator.width, terminal_emulator.height>> = <<3, 2>>

\* C15 (as stated, for the case it names): with a log of at least one event,
\* the frame that follows a frame in which the user clicked next and did not
\* move the slider, and whose reload, if any, had not failed, performs no
\* load_replay and no step_replay call in its seek phase.
C15_QuiescentAfterNext ==
    (/\ pc = "next"
     /\ EventsLen >= 1
     /\ last_frame.clicked
     /\ ~last_frame.dragged
     /\ ~last_frame.reload_failed)
    => frame_ops = <<>>

ReloadAttempted(ops) == ops # <<>> /\ ops[1].op \in {"load_ok", "load_err"}

\* C16: a seek phase entered with the cursor above the slider attempts a
\* reload; a failed one leaves the cursor where it was, above the slider; the
\* frame after a failed reload attempts it again unless the slider was moved;
\* and a seek phase whose reload succeeds ends with current_pos == slider_pos.
C16_RetryUntilLoaded ==
    /\ [][(pc = "seek" /\ replay_control.pos > slider_pos)
          => /\ ReloadAttempted(frame_ops')
             /\ HasOp(frame_ops', "load_err")
                  => /\ replay_control'.pos = replay_control.pos
                     /\ replay_control'.pos > slider_pos']_vars
    /\ []((pc = "next" /\ last_frame.reload_failed /\ ~last_frame.dragged)
            => ReloadAttempted(frame_ops))
    /\ [](BackwardSeekDone => replay_control.pos = slider_pos)

\* a reload failed, the slider was left alone, and the next frame's reload
\* succeeded: the cursor has arrived at the slider
C16_Witness ==
    /\ BackwardSeekDone
    /\ last_frame.reload_failed
    /\ ~last_frame.dragged
    /\ slider_pos >= 1
    /\ replay_control.pos = slider_pos

----------------------------------------------------------------------------
(* Live session *)

\* set_win_size applied twice with the same arguments gives the result, and
\* the emulator, of applying it once
SetWinSizeIdempotent(e) ==
    \A size \in WidgetSizes :
        LET once == set_win_size(e, size[1], size[2])
        IN  set_win_size(once.emu, size[1], size[2]) = once

\* C14: on every emulator state a live session reaches, set_win_size called
\* twice with identical arguments is equivalent to calling it once; and a live
\* frame whose computed widget size equals that of the frame before it leaves
\* the emulator unchanged by its set_win_size call.
C14_ResizeIdempotent ==
    /\ [](SetWinSizeIdempotent(termie_gui.terminal_emulator))
    /\ [][(pc = "live_resize" /\ live_history'.same_size)
            => termie_gui'.terminal_emulator = termie_gui.terminal_emulator]_vars

\* a frame has set the size of the frame before it, a valid one, on an
\* emulator that has output on its grid
C14_Witness ==
    /\ pc = "live_show"
    /\ live_history.same_size
    /\ live_history.win_size = <<MaxDim, 2>>
    /\ termie_gui.terminal_emulator.width = MaxDim
    /\ termie_gui.terminal_emulator.grid[1][1] = "a"

\* C18: at most one RecordingHandle is alive, and it is the one TermieGui
\* holds; start_recording is invoked only while recording_handle is None; a
\* failed start_recording leaves recording_handle None; Stop is offered only
\* while a handle is held and leaves recording_handle None with no handle alive.
C18_RecordingToggle ==
    /\ [](/\ Cardinality(live_history.live_handles) <= 1
          /\ live_history.live_handles =
                 IF termie_gui.recording_handle = "None"
                 THEN {} ELSE {termie_gui.recording_handle})
    /\ [][pc = "live_menu"
            => /\ live_history'.menu_op \in {"start_ok", "start_err"}
                    => termie_gui.recording_handle = "None"
               /\ live_history'.menu_op = "start_ok"
                    => termie_gui'.recording_handle \in RecordingHandles
               /\ live_history'.menu_op = "start_err"
                    => termie_gui'.recording_handle = "None"
               /\ live_history'.menu_op = "stop"
                    => /\ termie_gui.recording_handle # "None"
                       /\ termie_gui'.recording_handle = "None"
                       /\ live_history'.live_handles = {}]_vars

\* a recording was started and has just been stopped
C18_Witness ==
    /\ pc = "live_resize"
    /\ live_history.menu_op = "stop"
    /\ termie_gui.recording_handle = "None"
    /\ live_history.live_handles = {}

====
